---- MODULE Spec2Model ----
(***************************************************************************)
(* A model of data_cleaning.py: the pipeline main() that filters          *)
(* ratings.csv, links.csv, tags.csv and movies.csv down to a bounded,     *)
(* sanitized subset.  Text is a sequence of code points, a csv row is a   *)
(* function from column names to text, a file is a header and rows.       *)
(* Each loop iteration of each stage is one step.                         *)
(***************************************************************************)
EXTENDS Integers, Sequences, FiniteSets, TLC

VARIABLES
    fs,                 \* the directory: file name -> [exists, header, rows]
    cfg,                \* MAX_USERS, MAX_MOVIES, MAX_TAGS_PER_MOVIE, MAX_RATINGS_PER_USER, ASCII_ONLY
    pc,                 \* the function main() is in, or "Done" / "exit"
    phase,              \* "ensure": at ensure_file_with_columns, "loop": in the for loop
    idx,                \* position of the csv reader in the input rows
    ratings_count,      \* per-user counts of build_filtered_ratings
    tags_count,         \* per-movie counts of build_tags_filtered
    user_ids,           \* local set of load_ids_from_filtered_ratings
    movie_ids,          \* local set of load_ids_from_filtered_ratings
    allowed_movie_ids,  \* main's movie_ids, handed to the three downstream filters
    kept,               \* rows written by the running stage
    error,              \* "" or the fatal error that ended the run
    failed,             \* "" or the stage that raised the fatal error
    started,            \* history: the stages entered in this run, in order
    written,            \* history: the output files opened for writing in this run
    run,                \* history: number of the current run of main()
    prev                \* history: the output files as the previous run left them

vars == <<fs, cfg, pc, phase, idx, ratings_count, tags_count, user_ids, movie_ids,
          allowed_movie_ids, kept, error, failed, started, written, run, prev>>

(***************************************************************************)
(* Bounds of the model.                                                    *)
(***************************************************************************)
MaxRatingRows == 3
MaxLinkRows == 2
MaxTagRows == 3
MaxMovieRows == 2
MaxRuns == 2
RerunRows == 2

(***************************************************************************)
(* Helpers.                                                                *)
(***************************************************************************)
Range(s) == {s[i] : i \in 1..Len(s)}

Min(a, b) == IF a < b THEN a ELSE b

\* Sequences over S of length at most n.
SeqUpTo(S, n) == UNION {[1..k -> S] : k \in 0..n}

\* An optional integer: Python's None or an int.
NoneInt == [some |-> FALSE, v |-> 0]

Some(n) == [some |-> TRUE, v |-> n]

\* Python's None where a text is expected: no text contains code point -1.
None == <<-1>>

(***************************************************************************)
(* Text and integer conversions.                                           *)
(***************************************************************************)
Zero == 48

Nine == 57

AsciiLimit == 128

IsDigit(c) == c >= Zero /\ c <= Nine

RECURSIVE DigitsValue(_)
DigitsValue(s) ==
    IF s = <<>> THEN 0
    ELSE 10 * DigitsValue(SubSeq(s, 1, Len(s) - 1)) + (s[Len(s)] - Zero)

\* int(s) raises ValueError unless s is a non-empty run of decimal digits
\* (signs, blanks and underscores, which int() also accepts, are not modelled).
IsInt(s) == s # <<>> /\ \A i \in 1..Len(s) : IsDigit(s[i])

int(s) == DigitsValue(s)

\* str(n) for n >= 0, as csv writes an int field.
RECURSIVE str(_)
str(n) == IF n < 10 THEN <<Zero + n>> ELSE str(n \div 10) \o <<Zero + (n % 10)>>

\* s.encode("ascii", "ignore").decode("ascii")
EncodeAsciiIgnore(s) == SelectSeq(s, LAMBDA c : c < AsciiLimit)

sanitize_asciiIdentity(s) == IF s = None THEN <<>> ELSE s

sanitize_ascii(s) ==
    IF s = None THEN <<>>
    ELSE IF ~cfg.ASCII_ONLY THEN s
    ELSE EncodeAsciiIgnore(s)

(***************************************************************************)
(* defaultdict(int).                                                       *)
(***************************************************************************)
EmptyCount == <<>>

Get(d, k) == IF k \in DOMAIN d THEN d[k] ELSE 0

Incr(d, k) == [x \in DOMAIN d \cup {k} |-> IF x = k THEN Get(d, k) + 1 ELSE d[x]]

(***************************************************************************)
(* Files and stages.                                                       *)
(***************************************************************************)
Absent == [exists |-> FALSE, header |-> <<>>, rows |-> <<>>]

File(h, r) == [exists |-> TRUE, header |-> h, rows |-> r]

RatingCols == <<"userId", "movieId", "rating", "timestamp">>

LinkCols == <<"movieId", "imdbId", "tmdbId">>

TagCols == <<"userId", "movieId", "tag", "timestamp">>

MovieCols == <<"movieId", "title", "genres">>

Stages == <<"build_filtered_ratings", "load_ids_from_filtered_ratings",
            "build_links_filtered", "build_tags_filtered", "build_movies_filtered">>

InputOf(stage) ==
    CASE stage = "build_filtered_ratings" -> "ratings.csv"
      [] stage = "load_ids_from_filtered_ratings" -> "filtered_ratings.csv"
      [] stage = "build_links_filtered" -> "links.csv"
      [] stage = "build_tags_filtered" -> "tags.csv"
      [] stage = "build_movies_filtered" -> "movies.csv"

\* The file a stage writes; the identifier extractor writes none.
OutputOf(stage) ==
    CASE stage = "build_filtered_ratings" -> "filtered_ratings.csv"
      [] stage = "load_ids_from_filtered_ratings" -> ""
      [] stage = "build_links_filtered" -> "links_filtered.csv"
      [] stage = "build_tags_filtered" -> "tags_filtered.csv"
      [] stage = "build_movies_filtered" -> "movies_filtered.csv"

RequiredCols(stage) ==
    CASE stage = "build_filtered_ratings" -> RatingCols
      [] stage = "load_ids_from_filtered_ratings" -> RatingCols
      [] stage = "build_links_filtered" -> LinkCols
      [] stage = "build_tags_filtered" -> TagCols
      [] stage = "build_movies_filtered" -> MovieCols

InputFiles == {"ratings.csv", "links.csv", "tags.csv", "movies.csv"}

OutputFiles == {"filtered_ratings.csv", "links_filtered.csv", "tags_filtered.csv",
                "movies_filtered.csv"}

StageIndex(stage) == CHOOSE i \in 1..Len(Stages) : Stages[i] = stage

\* main(): the statement after the call of `stage`.
AfterStageSwapped(stage) ==
    CASE stage = "build_filtered_ratings" -> "load_ids_from_filtered_ratings"
      [] stage = "load_ids_from_filtered_ratings" -> "build_tags_filtered"
      [] stage = "build_tags_filtered" -> "build_links_filtered"
      [] stage = "build_links_filtered" -> "build_movies_filtered"
      [] stage = "build_movies_filtered" -> "Done"

AfterStage(stage) ==
    IF StageIndex(stage) < Len(Stages) THEN Stages[StageIndex(stage) + 1] ELSE "Done"

\* sys.exit(1), or an exception no caller catches: the process ends.
FatalReturns(stage) == AfterStage(stage)

Fatal(stage) == "exit"

\* open(path, "w") and writeheader(): the file is created or truncated.
OpenAppend(old, header) == IF old.exists THEN old ELSE File(header, <<>>)

OpenWrite(old, header) == File(header, <<>>)

\* The validator's two checks.
MissingColumns(t, required) ==
    {required[i] : i \in 1..Len(required)} \ Range(t.header)


\* DictWriter(fieldnames).writerow(row) raises ValueError when the row has a key
\* that is not in fieldnames (extrasaction="raise"), else writes the fieldnames' values.
WriterAccepts(row, fieldnames) == DOMAIN row \subseteq Range(fieldnames)

WriterRecord(row, fieldnames) == [c \in Range(fieldnames) |-> row[c]]

AppendRow(file, row) == [file EXCEPT !.rows = Append(@, row)]

(***************************************************************************)
(* The decisions of the filters.                                           *)
(***************************************************************************)
\* build_filtered_ratings: `if user_id > MAX_USERS: break`
PastMaxUsersExclusive(user_id) == user_id >= cfg.MAX_USERS

PastMaxUsers(user_id) == user_id > cfg.MAX_USERS

\* build_filtered_ratings: the per-user cap, tested after the increment
OverRatingsCapLate(count) ==
    cfg.MAX_RATINGS_PER_USER.some /\ count > cfg.MAX_RATINGS_PER_USER.v + 1

OverRatingsCap(count) ==
    cfg.MAX_RATINGS_PER_USER.some /\ count > cfg.MAX_RATINGS_PER_USER.v

\* build_tags_filtered: the per-movie cap, tested after the increment
OverTagsCapEarly(count) ==
    cfg.MAX_TAGS_PER_MOVIE.some /\ count >= cfg.MAX_TAGS_PER_MOVIE.v

OverTagsCap(count) ==
    cfg.MAX_TAGS_PER_MOVIE.some /\ count > cfg.MAX_TAGS_PER_MOVIE.v

\* `movie_id in movie_ids` of the three downstream filters
InAllowedAlways(movie_id, ids) == TRUE

InAllowed(movie_id, ids) == movie_id \in ids

\* sorted(ids)
RECURSIVE sorted(_)
sorted(S) ==
    IF S = {} THEN <<>>
    ELSE LET m == CHOOSE x \in S : \A y \in S : x <= y
         IN  <<m>> \o sorted(S \ {m})

\* load_ids_from_filtered_ratings: the optional hard cap on the number of movies
CapMoviesLargest(ids) ==
    IF cfg.MAX_MOVIES.some /\ Cardinality(ids) > cfg.MAX_MOVIES.v
    THEN LET s == sorted(ids)
         IN  Range(SubSeq(s, Len(s) - cfg.MAX_MOVIES.v + 1, Len(s)))
    ELSE ids

CapMovies(ids) ==
    IF cfg.MAX_MOVIES.some /\ Cardinality(ids) > cfg.MAX_MOVIES.v
    THEN Range(SubSeq(sorted(ids), 1, cfg.MAX_MOVIES.v))
    ELSE ids

(***************************************************************************)
(* Steps shared by the stages.                                             *)
(***************************************************************************)
Running == pc \in Range(Stages)

Input == fs[InputOf(pc)]

Row == Input.rows[idx]

AtRow == Running /\ phase = "loop" /\ idx <= Len(Input.rows)

AtEnd == Running /\ phase = "loop" /\ idx > Len(Input.rows)

History == UNCHANGED <<cfg, run, prev>>

\* The function returns (or the process ends): its locals are gone.
Leave(to) ==
    /\ pc' = to
    /\ phase' = "ensure"
    /\ idx' = 1
    /\ kept' = 0
    /\ ratings_count' = EmptyCount
    /\ tags_count' = EmptyCount
    /\ movie_ids' = {}

\* An uncaught exception or sys.exit(1) in the running stage.
Raise(kind) ==
    /\ Leave(Fatal(pc))
    /\ error' = kind
    /\ failed' = pc

\* `continue`, or the end of the loop body: the reader moves to the next row.
NextRow ==
    /\ idx' = idx + 1
    /\ UNCHANGED <<pc, phase, error, failed>>

(***************************************************************************)
(* ensure_file_with_columns, then the opening of the stage's files.        *)
(***************************************************************************)
EnsureMissingFile ==
    /\ Running /\ phase = "ensure"
    /\ ~Input.exists
    /\ started' = Append(started, pc)
    /\ Raise("MissingSource")
    /\ UNCHANGED <<fs, user_ids, allowed_movie_ids, written>>
    /\ History

EnsureMissingColumns ==
    /\ Running /\ phase = "ensure"
    /\ Input.exists
    /\ MissingColumns(Input, RequiredCols(pc)) # {}
    /\ started' = Append(started, pc)
    /\ Raise("MissingColumns")
    /\ UNCHANGED <<fs, user_ids, allowed_movie_ids, written>>
    /\ History

EnsureOk ==
    /\ Running /\ phase = "ensure"
    /\ Input.exists
    /\ MissingColumns(Input, RequiredCols(pc)) = {}
    /\ started' = Append(started, pc)
    /\ phase' = "loop"
    /\ idx' = 1
    /\ kept' = 0
    /\ ratings_count' = EmptyCount
    /\ tags_count' = EmptyCount
    /\ IF pc = "load_ids_from_filtered_ratings"
       THEN /\ user_ids' = {}
            /\ movie_ids' = {}
            /\ UNCHANGED <<fs, written>>
       ELSE /\ fs' = [fs EXCEPT ![OutputOf(pc)] = OpenWrite(@, RequiredCols(pc))]
            /\ written' = written \cup {OutputOf(pc)}
            /\ UNCHANGED <<user_ids, movie_ids>>
    /\ UNCHANGED <<pc, error, failed, allowed_movie_ids>>
    /\ History


(***************************************************************************)
(* build_filtered_ratings: one iteration of `for row in reader`.           *)
(***************************************************************************)
RatingsRow ==
    /\ AtRow /\ pc = "build_filtered_ratings"
    /\ IF ~IsInt(Row["userId"])
       THEN /\ Raise("ValueError")
            /\ UNCHANGED fs
       ELSE LET user_id == int(Row["userId"])
                count == Incr(ratings_count, user_id)
            IN  IF PastMaxUsers(user_id)
                THEN \* break: the function prints the count and returns
                     /\ Leave(AfterStage(pc))
                     /\ UNCHANGED <<fs, error, failed>>
                ELSE /\ ratings_count' = count
                     /\ NextRow
                     /\ UNCHANGED <<tags_count, movie_ids>>
                     /\ IF OverRatingsCap(count[user_id])
                        THEN UNCHANGED <<fs, kept>>
                        ELSE /\ fs' = [fs EXCEPT ![OutputOf(pc)] =
                                          AppendRow(@, WriterRecord(Row, RatingCols))]
                             /\ kept' = kept + 1
    /\ UNCHANGED <<user_ids, allowed_movie_ids, started, written>>
    /\ History

RatingsEnd ==
    /\ AtEnd /\ pc = "build_filtered_ratings"
    /\ Leave(AfterStage(pc))
    /\ UNCHANGED <<fs, error, failed, user_ids, allowed_movie_ids, started, written>>
    /\ History

(***************************************************************************)
(* load_ids_from_filtered_ratings.                                         *)
(***************************************************************************)
ExtractRow ==
    /\ AtRow /\ pc = "load_ids_from_filtered_ratings"
    /\ IF ~IsInt(Row["userId"])
       THEN /\ Raise("ValueError")
            /\ UNCHANGED user_ids
       ELSE /\ user_ids' = user_ids \cup {int(Row["userId"])}
            /\ IF ~IsInt(Row["movieId"])
               THEN Raise("ValueError")
               ELSE /\ movie_ids' = movie_ids \cup {int(Row["movieId"])}
                    /\ NextRow
                    /\ UNCHANGED <<kept, ratings_count, tags_count>>
    /\ UNCHANGED <<fs, allowed_movie_ids, started, written>>
    /\ History

\* The cap, the print and `return user_ids, movie_ids`.
ExtractEnd ==
    /\ AtEnd /\ pc = "load_ids_from_filtered_ratings"
    /\ allowed_movie_ids' = CapMovies(movie_ids)
    /\ Leave(AfterStage(pc))
    /\ UNCHANGED <<fs, error, failed, user_ids, started, written>>
    /\ History

(***************************************************************************)
(* build_links_filtered.                                                   *)
(***************************************************************************)
LinksRow ==
    /\ AtRow /\ pc = "build_links_filtered"
    /\ IF ~IsInt(Row["movieId"])
       THEN /\ Raise("ValueError")
            /\ UNCHANGED fs
       ELSE LET movie_id == int(Row["movieId"])
            IN  IF ~InAllowed(movie_id, allowed_movie_ids)
                THEN /\ NextRow
                     /\ UNCHANGED <<fs, kept, ratings_count, tags_count, movie_ids>>
                ELSE IF ~WriterAccepts(Row, LinkCols)
                THEN \* writer.writerow(row) raises on the row's extra keys
                     /\ Raise("ValueError")
                     /\ UNCHANGED fs
                ELSE /\ fs' = [fs EXCEPT ![OutputOf(pc)] =
                                  AppendRow(@, WriterRecord(Row, LinkCols))]
                     /\ kept' = kept + 1
                     /\ NextRow
                     /\ UNCHANGED <<ratings_count, tags_count, movie_ids>>
    /\ UNCHANGED <<user_ids, allowed_movie_ids, started, written>>
    /\ History

LinksEnd ==
    /\ AtEnd /\ pc = "build_links_filtered"
    /\ Leave(AfterStage(pc))
    /\ UNCHANGED <<fs, error, failed, user_ids, allowed_movie_ids, started, written>>
    /\ History

(***************************************************************************)
(* build_tags_filtered.                                                    *)
(***************************************************************************)
TagsRow ==
    /\ AtRow /\ pc = "build_tags_filtered"
    /\ IF ~IsInt(Row["movieId"])
       THEN /\ Raise("ValueError")
            /\ UNCHANGED fs
       ELSE LET movie_id == int(Row["movieId"])
                count == Incr(tags_count, movie_id)
            IN  IF ~InAllowed(movie_id, allowed_movie_ids)
                THEN /\ NextRow
                     /\ UNCHANGED <<fs, kept, ratings_count, tags_count, movie_ids>>
                ELSE /\ tags_count' = count
                     /\ NextRow
                     /\ UNCHANGED <<ratings_count, movie_ids>>
                     /\ IF OverTagsCap(count[movie_id])
                        THEN UNCHANGED <<fs, kept>>
                        ELSE /\ fs' = [fs EXCEPT ![OutputOf(pc)] = AppendRow(@,
                                          [userId |-> Row["userId"],
                                           movieId |-> Row["movieId"],
                                           tag |-> sanitize_ascii(Row["tag"]),
                                           timestamp |-> Row["timestamp"]])]
                             /\ kept' = kept + 1
    /\ UNCHANGED <<user_ids, allowed_movie_ids, started, written>>
    /\ History

TagsEnd ==
    /\ AtEnd /\ pc = "build_tags_filtered"
    /\ Leave(AfterStage(pc))
    /\ UNCHANGED <<fs, error, failed, user_ids, allowed_movie_ids, started, written>>
    /\ History

(***************************************************************************)
(* build_movies_filtered.                                                  *)
(***************************************************************************)
MoviesRow ==
    /\ AtRow /\ pc = "build_movies_filtered"
    /\ IF ~IsInt(Row["movieId"])
       THEN /\ Raise("ValueError")
            /\ UNCHANGED fs
       ELSE LET movie_id == int(Row["movieId"])
            IN  /\ NextRow
                /\ UNCHANGED <<ratings_count, tags_count, movie_ids>>
                /\ IF InAllowed(movie_id, allowed_movie_ids)
                   THEN /\ fs' = [fs EXCEPT ![OutputOf(pc)] = AppendRow(@,
                                     [movieId |-> str(movie_id),
                                      title |-> sanitize_ascii(Row["title"]),
                                      genres |-> sanitize_ascii(Row["genres"])])]
                        /\ kept' = kept + 1
                   ELSE UNCHANGED <<fs, kept>>
    /\ UNCHANGED <<user_ids, allowed_movie_ids, started, written>>
    /\ History

\* The last stage returns and main prints "Done."
MoviesEnd ==
    /\ AtEnd /\ pc = "build_movies_filtered"
    /\ Leave(AfterStage(pc))
    /\ UNCHANGED <<fs, error, failed, user_ids, allowed_movie_ids, started, written>>
    /\ History

(***************************************************************************)
(* The script is run again in the same directory.                          *)
(***************************************************************************)
Outputs == [f \in OutputFiles |-> fs[f]]

Rerun ==
    /\ pc \in {"Done", "exit"}
    /\ run < MaxRuns
    /\ run' = run + 1
    /\ prev' = Outputs
    /\ pc' = Stages[1]
    /\ error' = ""
    /\ failed' = ""
    /\ started' = <<>>
    /\ written' = {}
    /\ user_ids' = {}
    /\ allowed_movie_ids' = {}
    /\ UNCHANGED <<fs, cfg, phase, idx, ratings_count, tags_count, movie_ids, kept>>


(***************************************************************************)
(* The inputs: the four csv files and the configuration constants.         *)
(***************************************************************************)
\* "1", "2", "3", "5", "02", "03": identifiers; "x": not an integer
Txt1 == <<49>>

Txt2 == <<50>>

Txt3 == <<51>>

Txt5 == <<53>>

Txt02 == <<48, 50>>

Txt03 == <<48, 51>>

TxtX == <<120>>

\* "4.0", "100", "tt"
TxtRating == <<52, 46, 48>>

TxtStamp == <<49, 48, 48>>

TxtImdb == <<116, 116>>

\* "café", "good", "é|b"
TxtCafe == <<99, 97, 102, 233>>

TxtGood == <<103, 111, 111, 100>>

TxtGenres == <<233, 124, 98>>

RatingRow(u, m) == [userId |-> u, movieId |-> m, rating |-> TxtRating, timestamp |-> TxtStamp]

LinkRow(m) == [movieId |-> m, imdbId |-> TxtImdb, tmdbId |-> TxtStamp]

LinkRowExtra(m) == [movieId |-> m, imdbId |-> TxtImdb, tmdbId |-> TxtStamp, extra |-> TxtGood]

TagRow(m, t) == [userId |-> Txt1, movieId |-> m, tag |-> t, timestamp |-> TxtStamp]

MovieRow(m, t, g) == [movieId |-> m, title |-> t, genres |-> g]

\* A file that is not there, and a file whose header lacks the last required column.
Broken(cols) == {Absent, File(SubSeq(cols, 1, Len(cols) - 1), <<>>)}

\* Ratings that exercise the user cutoff and the per-user cap.
RatingsByUser(n) ==
    {File(RatingCols, r) :
        r \in SeqUpTo({RatingRow(u, Txt1) : u \in {Txt1, Txt02, Txt3, TxtX}}
                      \cup {RatingRow(Txt1, Txt2)}, n)}

\* Ratings that exercise the movie universe.
RatingsByMovie(n) ==
    {File(RatingCols, r) :
        r \in SeqUpTo({RatingRow(Txt1, m) : m \in {Txt1, Txt2, Txt03, TxtX}}, n)}

LinksFiles(n) ==
    {File(LinkCols, r) : r \in SeqUpTo({LinkRow(m) : m \in {Txt1, Txt02, Txt5, TxtX}}, n)}
    \cup {File(<<"tmdbId", "imdbId", "movieId">>, r) :
            r \in SeqUpTo({LinkRow(m) : m \in {Txt1, Txt02, Txt5, TxtX}}, n)}
    \cup {File(LinkCols \o <<"extra">>, r) :
            r \in SeqUpTo({LinkRowExtra(m) : m \in {Txt1, Txt02, Txt5, TxtX}}, n)}

TagsFiles(n) ==
    {File(TagCols, r) :
        r \in SeqUpTo({TagRow(m, TxtCafe) : m \in {Txt1, Txt03, TxtX}}
                      \cup {TagRow(Txt1, TxtGood)}, n)}

MoviesFiles(n) ==
    {File(MovieCols, r) :
        r \in SeqUpTo({MovieRow(m, TxtCafe, TxtGenres) : m \in {Txt1, Txt03, TxtX}}
                      \cup {MovieRow(m, TxtGood, None) : m \in {Txt1, Txt03, TxtX}}, n)}

\* One well-formed file of each kind: the movies rated are 1, 3 and 2.
SomeRatings ==
    File(RatingCols, <<RatingRow(Txt1, Txt1), RatingRow(Txt1, Txt03), RatingRow(Txt02, Txt2)>>)

SomeLinks == File(LinkCols, <<LinkRow(Txt2), LinkRow(Txt5)>>)

SomeTags == File(TagCols, <<TagRow(Txt1, TxtCafe), TagRow(Txt5, TxtGood)>>)

SomeMovies == File(MovieCols, <<MovieRow(Txt02, TxtCafe, TxtGenres)>>)

Config(users, movies, tags, ratings, ascii) ==
    [MAX_USERS |-> users, MAX_MOVIES |-> movies, MAX_TAGS_PER_MOVIE |-> tags,
     MAX_RATINGS_PER_USER |-> ratings, ASCII_ONLY |-> ascii]

Inputs(r, l, t, m, c) == [ratings |-> r, links |-> l, tags |-> t, movies |-> m, cfg |-> c]

\* The inputs explored: each family varies one file, and the options that bear on
\* it, over everything within the bound, with the other files well-formed.
InputsByUser(n) ==
    {Inputs(r, SomeLinks, SomeTags, SomeMovies, Config(u, NoneInt, NoneInt, c, TRUE)) :
        r \in RatingsByUser(n) \cup Broken(RatingCols),
        u \in {1, 2}, c \in {NoneInt, Some(1), Some(2)}}

InputsByMovie(n) ==
    {Inputs(r, SomeLinks, SomeTags, SomeMovies, Config(2, c, NoneInt, k, TRUE)) :
        r \in RatingsByMovie(n), c \in {NoneInt, Some(0), Some(1), Some(2)},
        k \in {NoneInt, Some(2)}}

InputsLinks(n) ==
    {Inputs(SomeRatings, l, SomeTags, SomeMovies, Config(2, c, NoneInt, NoneInt, TRUE)) :
        l \in LinksFiles(n) \cup Broken(LinkCols), c \in {NoneInt, Some(0), Some(2)}}

InputsTags(n) ==
    {Inputs(SomeRatings, SomeLinks, t, SomeMovies, Config(2, c, k, r, a)) :
        t \in TagsFiles(n) \cup Broken(TagCols), c \in {NoneInt, Some(2)},
        k \in {NoneInt, Some(1), Some(2)}, r \in {NoneInt, Some(1)}, a \in BOOLEAN}

InputsMovies(n) ==
    {Inputs(SomeRatings, SomeLinks, SomeTags, m, Config(2, c, NoneInt, NoneInt, a)) :
        m \in MoviesFiles(n) \cup Broken(MovieCols), c \in {NoneInt, Some(0), Some(2)},
        a \in BOOLEAN}

InitWith(in) ==
    /\ fs = [f \in InputFiles \cup OutputFiles |->
                CASE f = "ratings.csv" -> in.ratings
                  [] f = "links.csv" -> in.links
                  [] f = "tags.csv" -> in.tags
                  [] f = "movies.csv" -> in.movies
                  [] OTHER -> Absent]
    /\ cfg = in.cfg
    /\ pc = Stages[1]
    /\ phase = "ensure"
    /\ idx = 1
    /\ ratings_count = EmptyCount
    /\ tags_count = EmptyCount
    /\ user_ids = {}
    /\ movie_ids = {}
    /\ allowed_movie_ids = {}
    /\ kept = 0
    /\ error = ""
    /\ failed = ""
    /\ started = <<>>
    /\ written = {}
    /\ run = 1
    /\ prev = [f \in OutputFiles |-> Absent]

Init ==
    \E in \in InputsByUser(MaxRatingRows) \cup InputsByMovie(MaxRatingRows)
              \cup InputsLinks(MaxLinkRows) \cup InputsTags(MaxTagRows)
              \cup InputsMovies(MaxMovieRows) : InitWith(in)

InitRerun ==
    \E in \in InputsByUser(RerunRows) \cup InputsByMovie(RerunRows)
              \cup InputsLinks(RerunRows) \cup InputsTags(RerunRows)
              \cup InputsMovies(RerunRows) : InitWith(in)

Next ==
    \/ EnsureMissingFile
    \/ EnsureMissingColumns
    \/ EnsureOk
    \/ RatingsRow
    \/ RatingsEnd
    \/ ExtractRow
    \/ ExtractEnd
    \/ LinksRow
    \/ LinksEnd
    \/ TagsRow
    \/ TagsEnd
    \/ MoviesRow
    \/ MoviesEnd

NextRerun == Next \/ Rerun

\* One run of main() in a fresh directory.
Spec == Init /\ [][Next]_vars

\* main() run MaxRuns times in the same directory, the inputs unchanged.
SpecRerun == InitRerun /\ [][NextRerun]_vars


(***************************************************************************)
(* Notions the properties are stated in.                                   *)
(***************************************************************************)
Rows(f) == fs[f].rows

\* The rows of s at the positions in I, in the order of s.
RECURSIVE RowsAt(_, _, _)
RowsAt(s, I, n) ==
    IF n = 0 THEN <<>>
    ELSE IF n \in I THEN Append(RowsAt(s, I, n - 1), s[n]) ELSE RowsAt(s, I, n - 1)

\* The stage has been entered and has returned normally in this run.
Returned(stage) ==
    /\ stage \in Range(started)
    /\ pc # stage
    /\ failed # stage

\* The distinct movie identifiers of the filtered ratings.
RatedMovies ==
    {int(Rows("filtered_ratings.csv")[i]["movieId"]) :
        i \in 1..Len(Rows("filtered_ratings.csv"))}

DownstreamOutputs == {"links_filtered.csv", "tags_filtered.csv", "movies_filtered.csv"}

\* How many rows of file f carry the integer k in column col.
RowsWith(f, col, k) ==
    Cardinality({i \in 1..Len(Rows(f)) : IsInt(Rows(f)[i][col]) /\ int(Rows(f)[i][col]) = k})

Keys(f, col) == {int(Rows(f)[i][col]) : i \in {j \in 1..Len(Rows(f)) : IsInt(Rows(f)[j][col])}}

(***************************************************************************)
(* C1: after a completed run, every movieId in a row of the filtered       *)
(* links, tags or movies is a member of the allowed set the extractor      *)
(* returned, which holds only movies of this run's filtered ratings.       *)
(***************************************************************************)
C1_DownstreamWithinAllowed ==
    pc = "Done" =>
        /\ allowed_movie_ids \subseteq RatedMovies
        /\ \A f \in DownstreamOutputs : \A i \in 1..Len(Rows(f)) :
              /\ IsInt(Rows(f)[i]["movieId"])
              /\ int(Rows(f)[i]["movieId"]) \in allowed_movie_ids

\* A completed run that kept a row in each downstream output and dropped a
\* link row whose movie is not allowed.
C1_Witness ==
    /\ pc = "Done"
    /\ \A f \in DownstreamOutputs : Len(Rows(f)) > 0
    /\ \E i \in 1..Len(Rows("links.csv")) :
          /\ IsInt(Rows("links.csv")[i]["movieId"])
          /\ int(Rows("links.csv")[i]["movieId"]) \notin allowed_movie_ids

(***************************************************************************)
(* C2: in every state, so after every processed row and for any order of   *)
(* the input, no user has more than MAX_RATINGS_PER_USER rows in the       *)
(* filtered ratings and no movie more than MAX_TAGS_PER_MOVIE rows in the  *)
(* filtered tags, when the respective cap is enabled.                      *)
(***************************************************************************)
C2_CapsEnforced ==
    /\ cfg.MAX_RATINGS_PER_USER.some =>
          \A u \in Keys("filtered_ratings.csv", "userId") :
              RowsWith("filtered_ratings.csv", "userId", u) <= cfg.MAX_RATINGS_PER_USER.v
    /\ cfg.MAX_TAGS_PER_MOVIE.some =>
          \A m \in Keys("tags_filtered.csv", "movieId") :
              RowsWith("tags_filtered.csv", "movieId", m) <= cfg.MAX_TAGS_PER_MOVIE.v

\* A completed run in which both caps are enabled and both have dropped rows:
\* a user with more ratings than the cap, an allowed movie with more tags.
C2_Witness ==
    /\ pc = "Done"
    /\ cfg.MAX_RATINGS_PER_USER.some /\ cfg.MAX_TAGS_PER_MOVIE.some
    /\ \E u \in Keys("filtered_ratings.csv", "userId") :
          /\ RowsWith("ratings.csv", "userId", u) > cfg.MAX_RATINGS_PER_USER.v
          /\ RowsWith("filtered_ratings.csv", "userId", u) = cfg.MAX_RATINGS_PER_USER.v
    /\ \E m \in allowed_movie_ids :
          /\ RowsWith("tags.csv", "movieId", m) > cfg.MAX_TAGS_PER_MOVIE.v
          /\ RowsWith("tags_filtered.csv", "movieId", m) = cfg.MAX_TAGS_PER_MOVIE.v

(***************************************************************************)
(* C3: when MAX_MOVIES is set, the allowed set the extractor returns is    *)
(* exactly the min(MAX_MOVIES, |D|) smallest members of D, the distinct    *)
(* movieIds of the filtered ratings; with MAX_MOVIES = 0 it is empty and   *)
(* the filtered links, tags and movies of a completed run have no rows.    *)
(***************************************************************************)
C3_LowestMovies ==
    (Returned("load_ids_from_filtered_ratings") /\ cfg.MAX_MOVIES.some) =>
        LET D == RatedMovies
            n == cfg.MAX_MOVIES.v
        IN  /\ allowed_movie_ids = {m \in D : Cardinality({d \in D : d < m}) < n}
            /\ Cardinality(allowed_movie_ids) = Min(n, Cardinality(D))
            /\ Cardinality(allowed_movie_ids) <= n
            /\ n = 0 => allowed_movie_ids = {}
            /\ (n = 0 /\ pc = "Done") => \A f \in DownstreamOutputs : Rows(f) = <<>>

\* The extractor has truncated a universe whose first-encountered movie is not
\* among the lowest: the cap is positive, D is larger, the first row's movie is cut.
C3_Witness ==
    /\ pc = "Done"
    /\ cfg.MAX_MOVIES.some /\ cfg.MAX_MOVIES.v > 0
    /\ Cardinality(RatedMovies) > cfg.MAX_MOVIES.v
    /\ int(Rows("filtered_ratings.csv")[1]["movieId"]) \notin allowed_movie_ids
    /\ Cardinality(allowed_movie_ids) = cfg.MAX_MOVIES.v

RatingsSorted ==
    /\ \A i \in 1..Len(Rows("ratings.csv")) : IsInt(Rows("ratings.csv")[i]["userId"])
    /\ \A i, j \in 1..Len(Rows("ratings.csv")) :
          i < j => int(Rows("ratings.csv")[i]["userId"]) <= int(Rows("ratings.csv")[j]["userId"])

\* The positions of the ratings rows the claim says are kept.
RatingsExpected ==
    LET r == Rows("ratings.csv")
        u(i) == int(r[i]["userId"])
    IN  {i \in 1..Len(r) :
            /\ u(i) <= cfg.MAX_USERS
            /\ cfg.MAX_RATINGS_PER_USER.some =>
                  Cardinality({j \in 1..i : u(j) = u(i)}) <= cfg.MAX_RATINGS_PER_USER.v}

(***************************************************************************)
(* C4: for ratings non-decreasing in userId, the filtered ratings are      *)
(* exactly the rows with userId <= MAX_USERS that are among the first      *)
(* MAX_RATINGS_PER_USER rows of their user (all of them when the cap is    *)
(* disabled), in source order, each with its four fields unchanged.        *)
(***************************************************************************)
C4_SortedRatingsFiltered ==
    (Returned("build_filtered_ratings") /\ RatingsSorted) =>
        Rows("filtered_ratings.csv") =
            RowsAt(Rows("ratings.csv"), RatingsExpected, Len(Rows("ratings.csv")))

\* The scenario of the claim: two rows of user 1 and one of user 2, MAX_USERS = 1,
\* MAX_RATINGS_PER_USER = 1; only the first row is kept.
C4_Witness ==
    /\ Returned("build_filtered_ratings")
    /\ cfg.MAX_USERS = 1 /\ cfg.MAX_RATINGS_PER_USER = Some(1)
    /\ Rows("ratings.csv") =
          <<RatingRow(Txt1, Txt1), RatingRow(Txt1, Txt2), RatingRow(Txt02, Txt1)>>
    /\ Rows("filtered_ratings.csv") = <<RatingRow(Txt1, Txt1)>>

\* A row dropped by the cap is followed by a kept row of another user.
C4_CapDoesNotStop ==
    /\ Returned("build_filtered_ratings")
    /\ Rows("ratings.csv") =
          <<RatingRow(Txt1, Txt1), RatingRow(Txt1, Txt2), RatingRow(Txt02, Txt1)>>
    /\ Rows("filtered_ratings.csv") = <<RatingRow(Txt1, Txt1), RatingRow(Txt02, Txt1)>>


(***************************************************************************)
(* C5: main() run twice on the same inputs and configuration leaves the    *)
(* same filtered ratings, links, tags and movies: a run ends with the      *)
(* outputs the run before it ended with, whatever that run left behind.    *)
(***************************************************************************)
C5_RerunSameOutputs ==
    (run > 1 /\ pc \in {"Done", "exit"}) => Outputs = prev

\* A second run has completed over the four non-empty outputs of the first.
C5_Witness ==
    /\ run = 2
    /\ pc = "Done"
    /\ \A f \in OutputFiles : prev[f].exists /\ Len(prev[f].rows) > 0
    /\ \A f \in OutputFiles : Len(Rows(f)) > 0

\* The claim's transform, written out: drop the characters outside 7-bit ASCII.
RECURSIVE Stripped(_)
Stripped(s) ==
    IF s = <<>> THEN <<>>
    ELSE IF Head(s) \in 0..127 THEN <<Head(s)>> \o Stripped(Tail(s))
    ELSE Stripped(Tail(s))

ExpectedText(s) ==
    IF s = None THEN <<>>
    ELSE IF cfg.ASCII_ONLY THEN Stripped(s)
    ELSE s

IsAscii(s) == \A i \in 1..Len(s) : s[i] \in 0..127

\* The positions of the tag rows read so far that the filter keeps: the movie is
\* allowed and the row is among the first MAX_TAGS_PER_MOVIE rows of its movie.
TagsExpected(n) ==
    LET r == Rows("tags.csv")
        m(i) == int(r[i]["movieId"])
    IN  {i \in 1..n :
            /\ m(i) \in allowed_movie_ids
            /\ cfg.MAX_TAGS_PER_MOVIE.some =>
                  Cardinality({j \in 1..i : m(j) = m(i)}) <= cfg.MAX_TAGS_PER_MOVIE.v}

MoviesExpected(n) ==
    {i \in 1..n : int(Rows("movies.csv")[i]["movieId"]) \in allowed_movie_ids}

\* The rows read so far by the running stage (all of them once it has returned).
ReadSoFar(stage) ==
    IF pc = stage /\ phase = "loop" THEN idx - 1
    ELSE IF Returned(stage) THEN Len(Rows(InputOf(stage)))
    ELSE 0

(***************************************************************************)
(* C6: with ASCII_ONLY, the tag of every filtered tag and the title and    *)
(* genres of every filtered movie hold 7-bit ASCII only and are the input  *)
(* field with the other characters removed, order kept; without it they    *)
(* equal the input field.  (A field the input row lacks is written empty.) *)
(***************************************************************************)
C6_Sanitized ==
    /\ cfg.ASCII_ONLY =>
          /\ \A i \in 1..Len(Rows("tags_filtered.csv")) :
                IsAscii(Rows("tags_filtered.csv")[i]["tag"])
          /\ \A i \in 1..Len(Rows("movies_filtered.csv")) :
                /\ IsAscii(Rows("movies_filtered.csv")[i]["title"])
                /\ IsAscii(Rows("movies_filtered.csv")[i]["genres"])
    /\ (pc = "build_tags_filtered" /\ phase = "loop") \/ Returned("build_tags_filtered") =>
          LET n == ReadSoFar("build_tags_filtered")
              in == RowsAt(Rows("tags.csv"), TagsExpected(n), n)
              out == Rows("tags_filtered.csv")
          IN  /\ Len(out) = Len(in)
              /\ \A k \in 1..Len(out) : out[k]["tag"] = ExpectedText(in[k]["tag"])
    /\ (pc = "build_movies_filtered" /\ phase = "loop") \/ Returned("build_movies_filtered") =>
          LET n == ReadSoFar("build_movies_filtered")
              in == RowsAt(Rows("movies.csv"), MoviesExpected(n), n)
              out == Rows("movies_filtered.csv")
          IN  /\ Len(out) = Len(in)
              /\ \A k \in 1..Len(out) :
                    /\ out[k]["title"] = ExpectedText(in[k]["title"])
                    /\ out[k]["genres"] = ExpectedText(in[k]["genres"])

\* ASCII_ONLY is on and a completed run has written "caf" for the tag "café" and
\* for the title "café", and "|b" for the genres "é|b".
C6_Witness ==
    /\ pc = "Done"
    /\ cfg.ASCII_ONLY
    /\ \E i \in 1..Len(Rows("tags.csv")) : Rows("tags.csv")[i]["tag"] = TxtCafe
    /\ \E k \in 1..Len(Rows("tags_filtered.csv")) :
          Rows("tags_filtered.csv")[k]["tag"] = <<99, 97, 102>>
    /\ \E k \in 1..Len(Rows("movies_filtered.csv")) :
          /\ Rows("movies_filtered.csv")[k]["title"] = <<99, 97, 102>>
          /\ Rows("movies_filtered.csv")[k]["genres"] = <<124, 98>>

\* ASCII_ONLY is off and a completed run has written the tag "café" as it was.
C6_PassThrough ==
    /\ pc = "Done"
    /\ ~cfg.ASCII_ONLY
    /\ \E k \in 1..Len(Rows("tags_filtered.csv")) :
          Rows("tags_filtered.csv")[k]["tag"] = TxtCafe
    /\ \E k \in 1..Len(Rows("movies_filtered.csv")) :
          Rows("movies_filtered.csv")[k]["title"] = TxtCafe


LaterStages(stage) == {Stages[i] : i \in (StageIndex(stage) + 1)..Len(Stages)}

(***************************************************************************)
(* C7: the stages are entered in the order ratings filter, identifier      *)
(* extractor, links, tags, movies, each only after the one before it has   *)
(* returned; once a stage ends the run on a fatal error no later stage is  *)
(* entered and no output of a later stage is created or written.           *)
(***************************************************************************)
C7_StagesInOrderAbortStops ==
    /\ Len(started) <= Len(Stages)
    /\ \A i \in 1..Len(started) : started[i] = Stages[i]
    /\ written \subseteq {OutputOf(started[i]) : i \in 1..Len(started)}
    /\ Running =>
          IF phase = "ensure" THEN Len(started) = StageIndex(pc) - 1
          ELSE Len(started) = StageIndex(pc)
    /\ error # "" =>
          /\ pc = "exit"
          /\ started[Len(started)] = failed
          /\ \A later \in LaterStages(failed) :
                /\ later \notin Range(started)
                /\ OutputOf(later) \notin written
                /\ OutputOf(later) # "" => ~fs[OutputOf(later)].exists

\* The tag filter has ended the run on a malformed movieId after writing a row:
\* the outputs of the stages up to it exist, the filtered movies do not.
C7_Witness ==
    /\ pc = "exit"
    /\ failed = "build_tags_filtered"
    /\ error = "ValueError"
    /\ written = {"filtered_ratings.csv", "links_filtered.csv", "tags_filtered.csv"}
    /\ Len(Rows("tags_filtered.csv")) > 0
    /\ ~fs["movies_filtered.csv"].exists

TagRowsRead(m, n) ==
    Cardinality({i \in 1..n : int(Rows("tags.csv")[i]["movieId"]) = m})

\* The row the filter writes for a tag row it keeps.
TagOut(row) == [row EXCEPT !["tag"] = ExpectedText(row["tag"])]

RECURSIVE MapTagOut(_)
MapTagOut(s) == IF s = <<>> THEN <<>> ELSE <<TagOut(Head(s))>> \o MapTagOut(Tail(s))

(***************************************************************************)
(* C8: in the tag filter a row whose movie is not allowed touches no       *)
(* counter, the counter of an allowed movie m counts the rows read with    *)
(* movieId = m, and the rows kept are, for every allowed m, the first      *)
(* min(n_m, MAX_TAGS_PER_MOVIE) rows of m in source order, rows of other   *)
(* movies after a capped one included.                                     *)
(***************************************************************************)
C8_TagCounters ==
    /\ (pc = "build_tags_filtered" /\ phase = "loop") =>
          LET n == idx - 1
          IN  /\ DOMAIN tags_count \subseteq allowed_movie_ids
              /\ \A m \in allowed_movie_ids : Get(tags_count, m) = TagRowsRead(m, n)
              /\ Rows("tags_filtered.csv") =
                    MapTagOut(RowsAt(Rows("tags.csv"), TagsExpected(n), n))
              /\ cfg.MAX_TAGS_PER_MOVIE.some =>
                    \A m \in allowed_movie_ids :
                        RowsWith("tags_filtered.csv", "movieId", m) =
                            Min(TagRowsRead(m, n), cfg.MAX_TAGS_PER_MOVIE.v)
              /\ ~cfg.MAX_TAGS_PER_MOVIE.some =>
                    \A m \in allowed_movie_ids :
                        RowsWith("tags_filtered.csv", "movieId", m) = TagRowsRead(m, n)
    /\ Returned("build_tags_filtered") =>
          Rows("tags_filtered.csv") =
              MapTagOut(RowsAt(Rows("tags.csv"), TagsExpected(Len(Rows("tags.csv"))),
                               Len(Rows("tags.csv"))))

\* The tag filter has read all its rows: the second row of movie 1 was dropped by
\* the cap of 1 and the row of movie 3 after it was kept.
C8_Witness ==
    /\ pc = "build_tags_filtered" /\ phase = "loop"
    /\ idx = Len(Rows("tags.csv")) + 1
    /\ cfg.MAX_TAGS_PER_MOVIE = Some(1)
    /\ Len(Rows("tags.csv")) = 3
    /\ int(Rows("tags.csv")[1]["movieId"]) = 1
    /\ int(Rows("tags.csv")[2]["movieId"]) = 1
    /\ int(Rows("tags.csv")[3]["movieId"]) = 3
    /\ Get(tags_count, 1) = 2
    /\ Len(Rows("tags_filtered.csv")) = 2
    /\ Rows("tags_filtered.csv")[2]["movieId"] = Txt03

\* A tag row of a movie that is not allowed was read and dropped without a
\* counter, and a later row of an allowed movie was kept.
C8_NotAllowedNotCounted ==
    /\ pc = "build_tags_filtered" /\ phase = "loop"
    /\ idx = 3
    /\ int(Rows("tags.csv")[1]["movieId"]) \notin allowed_movie_ids
    /\ int(Rows("tags.csv")[2]["movieId"]) \in allowed_movie_ids
    /\ DOMAIN tags_count = {int(Rows("tags.csv")[2]["movieId"])}
    /\ Len(Rows("tags_filtered.csv")) = 1

LinksValid ==
    /\ fs["links.csv"].exists
    /\ MissingColumns(fs["links.csv"], LinkCols) = {}
    /\ \A i \in 1..Len(Rows("links.csv")) : IsInt(Rows("links.csv")[i]["movieId"])

LinksExpected ==
    {i \in 1..Len(Rows("links.csv")) :
        int(Rows("links.csv")[i]["movieId"]) \in allowed_movie_ids}

\* A link row as the three required columns show it.
RECURSIVE MapLinkCols(_)
MapLinkCols(s) ==
    IF s = <<>> THEN <<>>
    ELSE <<[c \in Range(LinkCols) |-> Head(s)[c]]>> \o MapLinkCols(Tail(s))

(***************************************************************************)
(* C9: for every link table that passes the validator (extra columns       *)
(* permitted, any column order) with integer movieIds, the links filter    *)
(* completes without error and writes, in source order, exactly the rows   *)
(* whose movieId is allowed.                                               *)
(***************************************************************************)
C9_LinksCompleteAndExact ==
    LinksValid =>
        /\ failed # "build_links_filtered"
        /\ Returned("build_links_filtered") =>
              Rows("links_filtered.csv") =
                  MapLinkCols(RowsAt(Rows("links.csv"), LinksExpected, Len(Rows("links.csv"))))

\* What the code does satisfy: the statement of C9 for the link tables whose header
\* is exactly the three required columns, in any order.
C9_LinksExactWithoutExtraColumns ==
    (LinksValid /\ Range(fs["links.csv"].header) = Range(LinkCols)) =>
        /\ failed # "build_links_filtered"
        /\ Returned("build_links_filtered") =>
              Rows("links_filtered.csv") =
                  MapLinkCols(RowsAt(Rows("links.csv"), LinksExpected, Len(Rows("links.csv"))))

RatingsValid ==
    /\ fs["ratings.csv"].exists
    /\ MissingColumns(fs["ratings.csv"], RatingCols) = {}

MalformedUserRows ==
    {i \in 1..Len(Rows("ratings.csv")) : ~IsInt(Rows("ratings.csv")[i]["userId"])}

(***************************************************************************)
(* C10 as claimed: a userId that is not an integer, in whatever row of the *)
(* ratings table, ends the run in the ratings filter.                      *)
(***************************************************************************)
C10_AnyMalformedUserIdIsFatal ==
    (RatingsValid /\ MalformedUserRows # {}) =>
        "load_ids_from_filtered_ratings" \notin Range(started)

\* The rows the loop reads: those before the first row past MAX_USERS, and it.
RatingRowsReached ==
    {i \in 1..Len(Rows("ratings.csv")) :
        \A j \in 1..(i - 1) :
            /\ IsInt(Rows("ratings.csv")[j]["userId"])
            /\ int(Rows("ratings.csv")[j]["userId"]) <= cfg.MAX_USERS}

(***************************************************************************)
(* C10 amended: a userId that is not an integer in a row the ratings       *)
(* filter reads, that is a row with no row before it whose userId exceeds  *)
(* MAX_USERS, ends the run there: nothing of that row or of a later row is *)
(* written and no later stage runs.  Only such a row ends the ratings      *)
(* filter with a ValueError.                                               *)
(***************************************************************************)
C10_ReachedMalformedUserIdIsFatal ==
    /\ (RatingsValid /\ MalformedUserRows \cap RatingRowsReached # {}) =>
          /\ "load_ids_from_filtered_ratings" \notin Range(started)
          /\ pc \in {"build_filtered_ratings", "exit"}
          /\ pc = "exit" =>
                /\ failed = "build_filtered_ratings"
                /\ error = "ValueError"
                /\ \A i \in MalformedUserRows : Len(Rows("filtered_ratings.csv")) < i
    /\ (failed = "build_filtered_ratings" /\ error = "ValueError") =>
          MalformedUserRows \cap RatingRowsReached # {}

\* The ratings filter kept a row and then ended the run on a malformed userId
\* that is followed by a well-formed row.
C10_Witness ==
    /\ pc = "exit"
    /\ failed = "build_filtered_ratings"
    /\ error = "ValueError"
    /\ Len(Rows("ratings.csv")) = 3
    /\ MalformedUserRows = {2}
    /\ Len(Rows("filtered_ratings.csv")) = 1

====
